---- MODULE Spec2Model ----
(***************************************************************************)
(* Model of app1.py, the Streamlit page that generates LinkedIn posts.     *)
(*                                                                         *)
(* Python strings that the handlers build or transform (topic, style,      *)
(* prompts, post, image) are sequences of one-character strings, so that    *)
(* strip, replace, re.sub and split are computed character by character.   *)
(* The fixed error messages are TLA+ strings; "" is the empty message.     *)
(*                                                                         *)
(* One step of the model is one user interaction: Streamlit runs the       *)
(* on_click callback of the clicked button to completion and then reruns   *)
(* the script top to bottom, which re-renders the buttons with fresh args. *)
(***************************************************************************)
EXTENDS Integers, Sequences, FiniteSets, TLC

VARIABLES
  session_state,   \* st.session_state: post, image, text_error, image_error,
                   \* feeling_lucky, n_requests
  topic,           \* value of the 'Select a Snowflake feature...' selectbox
  style,           \* value of the 'Select a style...' selectbox
  page,            \* buttons rendered by the last script run, with their args
  last,            \* history: the last callback invocation
  calls,           \* history: callback invocations in this session
  okCalls,         \* history: invocations that ran to their last statement
  image_source     \* history: the prompt argument of the generate_image call
                   \* that assigned session_state.image

vars == <<session_state, topic, style, page, last, calls, okCalls, image_source>>

----------------------------------------------------------------------------
(* Bounds *)

\* Callback invocations explored per browser session.
MaxCalls == 7

----------------------------------------------------------------------------
(* Catalog rows and replies of the external services *)

\* Rows of the snowflake_features table; the second row has an empty value.
sffeatures == << <<"U", "D">>, <<>> >>

\* Rows of the style table (edited_style); the second row has an empty value.
edited_style == << <<"d", "r", "y">>, <<>> >>

\* Outcomes of oai.Openai().moderate(prompt).
ModerateOutcomes == {"clean", "flagged", "raise"}

\* Texts oai.Openai().complete(...) may return.
CompleteReplies ==
  { <<" ", "\"", "H", "i", " ", "#", "s", "q", "l", ".", " ", "O", "k", "\"", "\n">>,
    <<"Y", "o", ".">>,
    <<" ", "\n">> }

\* Outcomes of oai.Openai().complete(...): a reply or an exception.
CompleteOutcomes ==
  {[raised |-> TRUE, value |-> <<>>]}
    \cup {[raised |-> FALSE, value |-> v] : v \in CompleteReplies}

\* Outcomes of oai.Openai().image(prompt): a URL or an exception.
ImageOutcomes ==
  { [raised |-> TRUE, value |-> <<>>],
    [raised |-> FALSE, value |-> <<"u", "1">>],
    [raised |-> FALSE, value |-> <<"u", "2">>] }

----------------------------------------------------------------------------
(* Python string operations *)

Whitespace == {" ", "\n", "\t", "\r"}

WordChars ==
  <<
    "A", "B", "C", "D", "E", "F", "G", "H", "I", "J", "K", "L", "M", "N",
    "O", "P", "Q", "R", "S", "T", "U", "V", "W", "X", "Y", "Z", "a", "b",
    "c", "d", "e", "f", "g", "h", "i", "j", "k", "l", "m", "n", "o", "p",
    "q", "r", "s", "t", "u", "v", "w", "x", "y", "z", "0", "1", "2", "3",
    "4", "5", "6", "7", "8", "9", "_" >>

WordCharSet == {WordChars[i] : i \in 1..Len(WordChars)}

RECURSIVE lstrip(_)
lstrip(s) ==
  IF s # <<>> /\ Head(s) \in Whitespace THEN lstrip(Tail(s)) ELSE s

RECURSIVE rstrip(_)
rstrip(s) ==
  IF s # <<>> /\ s[Len(s)] \in Whitespace
    THEN rstrip(SubSeq(s, 1, Len(s) - 1))
    ELSE s

\* str.strip()
strip(s) == rstrip(lstrip(s))

\* str.replace('"', "")
replace_quotes(s) == SelectSeq(s, LAMBDA c : c # "\"")

RECURSIVE drop_word(_)
drop_word(s) ==
  IF s # <<>> /\ Head(s) \in WordCharSet THEN drop_word(Tail(s)) ELSE s

\* re.sub("#[A-Za-z0-9_]+", "", prompt)
RECURSIVE sub_hashtags(_)
sub_hashtags(s) ==
  IF s = <<>> THEN <<>>
  ELSE IF Head(s) = "#" /\ Len(s) > 1 /\ s[2] \in WordCharSet
    THEN sub_hashtags(drop_word(Tail(s)))
    ELSE <<Head(s)>> \o sub_hashtags(Tail(s))

\* str.split(".")[0]
RECURSIVE split_first(_)
split_first(s) ==
  IF s = <<>> \/ Head(s) = "." THEN <<>>
  ELSE <<Head(s)>> \o split_first(Tail(s))

----------------------------------------------------------------------------
(* generate_text *)

TextHead ==
  <<
    "W", "r", "i", "t", "e", " ", "a", " " >>

TextMiddle ==
  <<
    " ", "L", "i", "n", "k", "e", "d", "I", "n", " ", "P", "o", "s", "t",
    " ", "a", "b", "o", "u", "t", " ", "t", "h", "e", " ", "S", "n", "o",
    "w", "f", "l", "a", "k", "e", " ", "d", "a", "t", "a", " ", "p", "l",
    "a", "t", "f", "o", "r", "m", " ", "f", "e", "a", "t", "u", "r", "e",
    " " >>

TextTail ==
  <<
    ":", "\n", "\n", " ", "i", "n", "c", "l", "u", "d", "e", " ", "t", "h",
    "e", " ", "h", "a", "s", "h", "t", "a", "g", "s", " ", "d", "a", "t",
    "a", "s", "u", "p", "e", "r", "h", "e", "r", "o", " ", "a", "n", "d",
    " ", "m", "a", "s", "t", "e", "r", "i", "n", "g", "s", "n", "o", "w",
    "f", "l", "a", "k", "e" >>

TooManyText ==
  "Too many requests. Please wait a few seconds before generating another post."

TooManyImage ==
  "Too many requests. Please wait a few seconds before generating another text or image."

EnterTopic == "Please enter a topic"

InputFlagged == "Input flagged as inappropriate."

\* Variant: the comparison is > instead of >=.
RateLimitedAbove(ss) == ss.n_requests > 5

\* if st.session_state.n_requests >= 5
RateLimited(ss) == ss.n_requests >= 5

\* Variant: the throttle branch resets the counter to 0.
RejectTextToZero(ss) == [ss EXCEPT !.text_error = TooManyText, !.n_requests = 0]

\* Variant: post and image are cleared before the throttle check.
RejectTextCleared(ss) ==
  [ss EXCEPT !.post = <<>>, !.image = <<>>, !.text_error = TooManyText,
             !.n_requests = 1]

\* The throttle branch of generate_text.
RejectText(ss) == [ss EXCEPT !.text_error = TooManyText, !.n_requests = 1]

\* Variant: the throttle branch resets the counter to 0.
RejectImageToZero(ss) == [ss EXCEPT !.text_error = TooManyImage, !.n_requests = 0]

\* The throttle branch of generate_image.
RejectImage(ss) == [ss EXCEPT !.text_error = TooManyImage, !.n_requests = 1]

\* Variant: the image of the previous post is kept.
ClearTextKeepImage(ss) == [ss EXCEPT !.post = <<>>, !.text_error = ""]

\* post, image and text_error are cleared once the throttle check has passed.
ClearText(ss) == [ss EXCEPT !.post = <<>>, !.image = <<>>, !.text_error = ""]

\* Variant: the empty-topic check is missing.
EmptyTopicUnchecked(t) == FALSE

\* if not topic
EmptyTopic(t) == t = <<>>

\* style_prompt = f"{style} " if style else ""
style_prompt(s) == IF s # <<>> THEN s \o <<" ">> ELSE <<>>

\* prompt = f"Write a {style_prompt} LinkedIn Post about ... {topic}:\n\n include ..."
TextPrompt(t, s) == TextHead \o style_prompt(s) \o TextMiddle \o t \o TextTail

\* Variant: the moderation verdict is ignored.
FlaggedIgnored(moderation) == FALSE

\* if flagged
Flagged(moderation) == moderation = "flagged"

\* st.session_state.n_requests += 1
CountRequest(ss) == [ss EXCEPT !.n_requests = @ + 1]

\* The result of a callback: the session state it leaves, the client
\* operations it called in order, how it ended, the prompt it sent, and
\* whether an exception left the callback.
Result(ss, trace, outcome, prompt, escaped) ==
  [ss |-> ss, trace |-> trace, outcome |-> outcome, prompt |-> prompt,
   escaped |-> escaped]

generate_text(ss, t, s, moderation, completion) ==
  IF RateLimited(ss)
    THEN Result(RejectText(ss), <<>>, "rate_limited", <<>>, FALSE)
  ELSE
    LET s1 == ClearText(ss) IN
    IF EmptyTopic(t)
      THEN Result([s1 EXCEPT !.text_error = EnterTopic], <<>>,
                  "empty_topic", <<>>, FALSE)
    ELSE
      LET prompt == TextPrompt(t, s) IN
      IF moderation = "raise"
        THEN Result(s1, <<"moderate">>, "raised", prompt, TRUE)
      ELSE IF Flagged(moderation)
        THEN Result([s1 EXCEPT !.text_error = InputFlagged], <<"moderate">>,
                    "flagged", prompt, FALSE)
      ELSE
        LET s2 == CountRequest([s1 EXCEPT !.text_error = ""]) IN
        IF completion.raised
          THEN Result(s2, <<"moderate", "complete">>, "raised", prompt, TRUE)
          ELSE Result([s2 EXCEPT !.post = replace_quotes(strip(completion.value))],
                      <<"moderate", "complete">>, "done", prompt, FALSE)

----------------------------------------------------------------------------
(* generate_image *)

ImageHead ==
  <<
    "I", "n", " ", "l", "e", "s", "s", " ", "t", "h", "a", "n", " ", "3",
    "0", "0", " ", "w", "o", "r", "d", "s", " ", "c", "r", "e", "a", "t",
    "e", " ", "a", " ", "d", "e", "t", "a", "i", "l", "e", "d", " ", "b",
    "u", "t", " ", "b", "r", "i", "e", "f", " ", "d", "e", "s", "c", "r",
    "i", "p", "t", "i", "o", "n", " ", "o", "f", " ", "a", "n", " ", "i",
    "m", "a", "g", "e", " ", "t", "h", "a", "t", " ", "c", "a", "p", "t",
    "u", "r", "e", "s", " ", "t", "h", "e", " ", "e", "s", "s", "e", "n",
    "c", "e", " ", "o", "f", " ", "t", "h", "e", " ", "f", "o", "l", "l",
    "o", "w", "i", "n", "g", " ", "t", "e", "x", "t", ":", "\n" >>

\* processing_prompt
ProcessingPrompt(prompt) ==
  ImageHead \o sub_hashtags(prompt) \o <<"\n", "\n">>

\* processed_prompt
ProcessedPrompt(reply) ==
  split_first(replace_quotes(strip(reply))) \o <<".">>

generate_image(ss, prompt, completion, img) ==
  IF RateLimited(ss)
    THEN Result(RejectImage(ss), <<>>, "rate_limited", <<>>, FALSE)
  ELSE
    LET processing_prompt == ProcessingPrompt(prompt) IN
    IF completion.raised
      THEN Result(ss, <<"complete">>, "raised", processing_prompt, TRUE)
    ELSE
      LET s1 == CountRequest(ss) IN
      IF img.raised
        THEN Result(s1, <<"complete", "image">>, "raised",
                    ProcessedPrompt(completion.value), TRUE)
        ELSE Result([s1 EXCEPT !.image = img.value], <<"complete", "image">>,
                    "done", ProcessedPrompt(completion.value), FALSE)

----------------------------------------------------------------------------
(* The script body: session defaults, widgets and buttons *)

\* Session defaults set when a key is missing from st.session_state.
SessionDefaults ==
  [post |-> <<>>, image |-> <<>>, text_error |-> "", image_error |-> "",
   feeling_lucky |-> FALSE, n_requests |-> 0]

Rows(list) == {list[i] : i \in 1..Len(list)}

\* random.choice(seq) for a non-empty string: one of its characters.
random_choice(str) == {<<str[i]>> : i \in 1..Len(str)}

\* What is on the page when an exception ended the run before any widget.
BlankPage ==
  [generate |-> FALSE, generate_args |-> <<>>,
   regenerate |-> FALSE, regenerate_args |-> <<>>,
   image_button |-> "", image_args |-> <<>>]

\* The page once the 'Generate text' button is rendered and nothing below it.
TopOfPage(t, s) ==
  [BlankPage EXCEPT !.generate = TRUE, !.generate_args = <<t, s>>]

\* The 'Generate image' / 'Regenerate image' button.
ImageButton(ss, pg) ==
  [pg EXCEPT !.image_button =
               IF ss.image = <<>> THEN "Generate image" ELSE "Regenerate image",
             !.image_args = <<ss.post>>]

\* st.session_state.feeling_lucky = not st.button("Generate text", ...):
\* st.button returns True only in the run its own click triggered.
FeelingLucky(clicked) == ~clicked

\* The args of the 'Regenerate text' button: the set of tuples the script
\* may register (empty when random.choice raises IndexError on "").
RegenerateArgs(ss, t, s) ==
  IF ss.feeling_lucky
    THEN IF t = <<>> \/ s = <<>>
           THEN {}
           ELSE {<<rt, rs>> : rt \in random_choice(t), rs \in random_choice(s)}
    ELSE {<<t, s>>}

\* One run of the script body with selectbox values t and s; clicked says
\* whether the run was triggered by a click on 'Generate text'.  The result
\* is the set of (session state, page) pairs the run may end in.
script(ss, t, s, clicked) ==
  LET s1 == [ss EXCEPT !.feeling_lucky = FeelingLucky(clicked)]
      top == TopOfPage(t, s)
  IN  IF s1.post = <<>>
        THEN {[ss |-> s1, page |-> top]}
      ELSE IF RegenerateArgs(s1, t, s) = {}
        THEN {[ss |-> s1, page |-> top]}
      ELSE {[ss |-> s1,
             page |-> ImageButton(s1, [top EXCEPT !.regenerate = TRUE,
                                                  !.regenerate_args = a])]
              : a \in RegenerateArgs(s1, t, s)}

----------------------------------------------------------------------------
(* State machine *)

NoCall ==
  [button |-> "", op |-> "", args |-> <<>>, selection |-> <<>>,
   trace |-> <<>>, outcome |-> "", prompt |-> <<>>, escaped |-> FALSE,
   moderation |-> "", failed |-> ""]

Init ==
  /\ topic = sffeatures[1]
  /\ style = edited_style[1]
  /\ \E rd \in script(SessionDefaults, sffeatures[1], edited_style[1], FALSE) :
       /\ session_state = rd.ss
       /\ page = rd.page
  /\ last = NoCall
  /\ calls = 0
  /\ okCalls = 0
  /\ image_source = <<>>

\* Streamlit runs the callback, then, unless an exception left it, the script.
Interaction(button, op, args, r, moderation, clicked) ==
  /\ last' = [button |-> button, op |-> op, args |-> args,
              selection |-> <<topic, style>>,
              trace |-> r.trace, outcome |-> r.outcome, prompt |-> r.prompt,
              escaped |-> r.escaped,
              moderation |-> IF r.trace # <<>> /\ r.trace[1] = "moderate"
                               THEN moderation ELSE "",
              failed |-> IF r.outcome = "raised"
                           THEN r.trace[Len(r.trace)] ELSE ""]
  /\ calls' = calls + 1
  /\ okCalls' = IF r.outcome = "done" THEN okCalls + 1 ELSE okCalls
  /\ image_source' =
       IF op = "generate_image" /\ r.outcome = "done" THEN args[1]
       ELSE IF r.ss.image = <<>> THEN <<>>
       ELSE image_source
  /\ IF r.escaped
       THEN session_state' = r.ss /\ page' = BlankPage
       ELSE \E rd \in script(r.ss, topic, style, clicked) :
              session_state' = rd.ss /\ page' = rd.page
  /\ UNCHANGED <<topic, style>>

ClickGenerateText ==
  /\ page.generate
  /\ calls < MaxCalls
  /\ \E m \in ModerateOutcomes, c \in CompleteOutcomes :
       Interaction("Generate text", "generate_text", page.generate_args,
                   generate_text(session_state, page.generate_args[1],
                                 page.generate_args[2], m, c),
                   m, TRUE)

ClickRegenerateText ==
  /\ page.regenerate
  /\ calls < MaxCalls
  /\ \E m \in ModerateOutcomes, c \in CompleteOutcomes :
       Interaction("Regenerate text", "generate_text", page.regenerate_args,
                   generate_text(session_state, page.regenerate_args[1],
                                 page.regenerate_args[2], m, c),
                   m, FALSE)

ClickImage(label) ==
  /\ page.image_button = label
  /\ calls < MaxCalls
  /\ \E c \in CompleteOutcomes, i \in ImageOutcomes :
       Interaction(label, "generate_image", page.image_args,
                   generate_image(session_state, page.image_args[1], c, i),
                   "", FALSE)

ClickGenerateImage == ClickImage("Generate image")

ClickRegenerateImage == ClickImage("Regenerate image")

\* A widget change or a manual rerun: the script runs with no callback.
Rerun(t, s) ==
  /\ topic' = t
  /\ style' = s
  /\ \E rd \in script(session_state, t, s, FALSE) :
       session_state' = rd.ss /\ page' = rd.page
  /\ UNCHANGED <<last, calls, okCalls, image_source>>

SelectTopic ==
  /\ page.generate
  /\ \E t \in Rows(sffeatures) : t # topic /\ Rerun(t, style)

SelectStyle ==
  /\ page.generate
  /\ \E s \in Rows(edited_style) : s # style /\ Rerun(topic, s)

ManualRerun == Rerun(topic, style)

\* The browser session ends and a new one starts with empty session state.
NewSession ==
  /\ calls > 0
  /\ topic' = sffeatures[1]
  /\ style' = edited_style[1]
  /\ \E rd \in script(SessionDefaults, sffeatures[1], edited_style[1], FALSE) :
       session_state' = rd.ss /\ page' = rd.page
  /\ last' = NoCall
  /\ calls' = 0
  /\ okCalls' = 0
  /\ image_source' = <<>>

Next ==
  \/ ClickGenerateText
  \/ ClickRegenerateText
  \/ ClickGenerateImage
  \/ ClickRegenerateImage
  \/ SelectTopic
  \/ SelectStyle
  \/ ManualRerun
  \/ NewSession

Spec == Init /\ [][Next]_vars

----------------------------------------------------------------------------
(* Properties *)

\* C1: in a session whose first five callback invocations all ran to
\* completion, the sixth invocation (generate_text or generate_image) is
\* rejected with a rate-limit message and leaves n_requests = 1.
C1_SixthCallRejected ==
  [][(calls = 5 /\ okCalls = 5 /\ calls' = 6)
       => /\ last'.outcome = "rate_limited"
          /\ session_state'.text_error \in {TooManyText, TooManyImage}
          /\ session_state'.n_requests = 1]_vars

C1_Witness ==
  /\ calls = 6
  /\ okCalls = 5
  /\ last.outcome = "rate_limited"
  /\ session_state.n_requests = 1

\* C2: generate_text never calls complete before moderate, and when moderate
\* returns flagged the invocation ends with an error message, without a
\* call of complete and with n_requests unchanged.
C2_FlaggedIsTerminal ==
  [][(calls' = calls + 1 /\ last'.op = "generate_text")
       => /\ \A i \in 1..Len(last'.trace) :
               last'.trace[i] = "complete"
                 => \E j \in 1..(i - 1) : last'.trace[j] = "moderate"
          /\ last'.moderation = "flagged"
               => /\ session_state'.text_error # ""
                  /\ \A i \in 1..Len(last'.trace) : last'.trace[i] # "complete"
                  /\ session_state'.n_requests = session_state.n_requests
                  /\ ~last'.escaped]_vars

C2_Witness ==
  /\ last.op = "generate_text"
  /\ last.moderation = "flagged"
  /\ last.trace = <<"moderate">>
  /\ session_state.text_error = InputFlagged

\* C3 as stated: after generate_text was called with an empty topic, post is
\* empty and an error message is set, whatever the state it was called in.
C3_Original ==
  (last.op = "generate_text" /\ last.args[1] = <<>>)
    => (session_state.post = <<>> /\ session_state.text_error # "")

\* C3 amended: generate_text with an empty topic always ends with an error
\* message and without an exception; post is empty afterwards when the call
\* was made with n_requests < 5, and keeps its value when n_requests >= 5.
C3_EmptyTopic ==
  [][(calls' = calls + 1 /\ last'.op = "generate_text" /\ last'.args[1] = <<>>)
       => /\ session_state'.text_error # ""
          /\ ~last'.escaped
          /\ last'.trace = <<>>
          /\ IF session_state.n_requests < 5
               THEN session_state'.post = <<>>
               ELSE session_state'.post = session_state.post]_vars

C3_Witness ==
  /\ last.op = "generate_text"
  /\ last.args[1] = <<>>
  /\ last.outcome = "empty_topic"
  /\ session_state.post = <<>>
  /\ session_state.text_error = EnterTopic

\* C4: an invocation of generate_text or generate_image adds exactly one to
\* n_requests when it completes successfully and does not increase
\* n_requests otherwise, in particular not when complete or image fails.
C4_CountedOnSuccessOnly ==
  [][(calls' = calls + 1)
       => IF last'.outcome = "done"
            THEN session_state'.n_requests = session_state.n_requests + 1
            ELSE session_state'.n_requests <= session_state.n_requests]_vars

\* C5: when moderate, complete or image fails, the callback ends with an
\* error message in session state and no exception leaves the callback.
C5_FailureRecovered ==
  last.failed # "" => (session_state.text_error # "" /\ ~last.escaped)

\* C6: an invocation made with n_requests >= 5 calls no client operation,
\* sets an error message, sets n_requests to 1 and leaves post and image as
\* they were.
C6_ThrottledDropped ==
  [][(calls' = calls + 1 /\ session_state.n_requests >= 5)
       => /\ last'.trace = <<>>
          /\ session_state'.text_error # ""
          /\ session_state'.n_requests = 1
          /\ session_state'.post = session_state.post
          /\ session_state'.image = session_state.image]_vars

C6_Witness ==
  /\ last.outcome = "rate_limited"
  /\ last.trace = <<>>
  /\ session_state.post # <<>>
  /\ session_state.image # <<>>
  /\ session_state.n_requests = 1

\* C7: every 'Regenerate text' click invokes generate_text with the topic
\* and style selected at the time of the click (the button only exists once
\* 'Generate text' has been clicked in the session).
C7_RegenerateFixed ==
  last.button = "Regenerate text" => last.args = last.selection

\* C8: the prompt generate_text sends is "Write a " + clause + "LinkedIn Post
\* about the Snowflake data platform feature " + topic + ": include the
\* hashtags datasuperhero and masteringsnowflake", where clause is style
\* followed by one space, or nothing when style is empty.
C8_PromptTemplate ==
  (last.op = "generate_text" /\ last.trace # <<>>)
    => LET t == last.args[1]
           s == last.args[2]
           clause == IF s # <<>> THEN s \o <<" ">> ELSE <<>>
           head == <<"W", "r", "i", "t", "e", " ", "a", " ">>
           middle ==
             <<
               "L", "i", "n", "k", "e", "d", "I", "n", " ", "P", "o", "s",
               "t", " ", "a", "b", "o", "u", "t", " ", "t", "h", "e", " ",
               "S", "n", "o", "w", "f", "l", "a", "k", "e", " ", "d", "a",
               "t", "a", " ", "p", "l", "a", "t", "f", "o", "r", "m", " ",
               "f", "e", "a", "t", "u", "r", "e", " " >>
           tail ==
             <<
               ":", " ", "i", "n", "c", "l", "u", "d", "e", " ", "t", "h",
               "e", " ", "h", "a", "s", "h", "t", "a", "g", "s", " ", "d",
               "a", "t", "a", "s", "u", "p", "e", "r", "h", "e", "r", "o",
               " ", "a", "n", "d", " ", "m", "a", "s", "t", "e", "r", "i",
               "n", "g", "s", "n", "o", "w", "f", "l", "a", "k", "e" >>
       IN  last.prompt = head \o clause \o middle \o t \o tail

\* C9: n_requests is an integer between 0 and 5 in every reachable state.
C9_CountInRange ==
  session_state.n_requests \in 0..5

C9_Witness ==
  /\ session_state.n_requests = 5
  /\ last.outcome = "done"

\* C10: a non-empty image comes with a non-empty post and was generated from
\* that post; an image button is only rendered while post is non-empty; and
\* every generate_text invocation that passes the throttle check leaves
\* image empty.
C10_ImageBelongsToPost ==
  /\ [](/\ session_state.image # <<>>
             => (session_state.post # <<>> /\ image_source = session_state.post)
        /\ page.image_button # ""
             => (session_state.post # <<>> /\ page.image_args = <<session_state.post>>))
  /\ [][(calls' = calls + 1 /\ last'.op = "generate_text"
           /\ last'.outcome # "rate_limited")
          => session_state'.image = <<>>]_vars

C10_Witness ==
  /\ session_state.image # <<>>
  /\ session_state.post # <<>>
  /\ last.op = "generate_image"
  /\ last.outcome = "done"
  /\ page.image_button = "Regenerate image"

====
